---- MODULE Spec2Model ----
(***************************************************************************)
(* The chunked transcription pipeline of the repository.                   *)
(*                                                                         *)
(* The entry points are modelled, one per behaviour (`route`):             *)
(*   "process"  the ffmpeg route: POST of src/unnamed/part_001:374-454,    *)
(*              with extractAudio, splitAudio and transcribeChunk;         *)
(*   "client"   the browser pipeline: handleSubmit of                      *)
(*              src/src/components/VideoUploader.tsx:224-283, with         *)
(*              decodeAudio, splitAudioBuffer and transcribeChunk;         *)
(*   "client2"  the single-call version of the component: handleSubmit of  *)
(*              VideoUploader.tsx:618-708, with extractAudioAsWav;         *)
(*   "rest" / "sdk"  the upload-then-reference routes:                     *)
(*              POST of part_001:186-228 (waitForFileActive) and           *)
(*              POST of part_001:14-99 (inline polling loop).              *)
(* Every await of a handler is a step of its own.  What the handlers do    *)
(* not control is a step too: the user's events, a backend that stops      *)
(* answering a call, a caller that goes away.                              *)
(*                                                                         *)
(* Spec runs one request per behaviour; SpecFair adds the fairness of the  *)
(* handlers' steps; SpecPair runs two requests of the ffmpeg route         *)
(* concurrently.                                                           *)
(***************************************************************************)
EXTENDS Integers, Sequences, FiniteSets, TLC

(***************************************************************************)
(* Bounds of the model.                                                    *)
(***************************************************************************)
\* the longest planned chunk sequence an input may need
MaxChunks == 3
\* the values Date.now() may return
MaxClock == 2
\* the requests the ffmpeg route may be handling
MaxRequests == 2

(***************************************************************************)
(* Program constants.                                                      *)
(***************************************************************************)
\* part_001:241
MAX_CHUNK_BYTES == 15 * 1024 * 1024
\* part_001:243
CHUNK_MINUTES == 30
\* part_001:267 / 315: "-ab 64k", a constant bit rate of 64000 bit/s
BYTES_PER_SECOND == 64000 \div 8
\* part_001:253-260 and 245-251: the two prompts
PROMPT == "PROMPT"
PROMPT_CONTINUATION == "PROMPT_CONTINUATION"
\* part_001:369-370: the text used when the answer has no text part
PLACEHOLDER == <<"no-result">>
\* part_001:435: the separator of results.join
PARAGRAPH_BREAK == <<"\n", "\n">>
\* part_001:365: the message of a non-OK answer that carries none
MSG_TRANSCRIBE_FAILED == "transcribe-failed"
\* part_001:393, 400: the messages of the two early rejections
MSG_NO_FILE == "no-video-file"
MSG_NOT_VIDEO == "not-a-video"
\* part_001:378
MSG_NO_API_KEY == "no-api-key"
\* part_001:117 (maxAttempts) and part_001:44 (attempts < 60)
maxAttempts == 60
\* part_001:128, 134, 29/201
MSG_FILE_FAILED == "file-processing-failed"
MSG_FILE_TIMEOUT == "file-processing-timed-out"
\* part_001:52: the message ends with the state that was found
BadStateMessage(state) ==
  CASE state = "PROCESSING" -> "bad-file-state: PROCESSING"
    [] state = "FAILED" -> "bad-file-state: FAILED"
    [] OTHER -> "bad-file-state: undefined"
MSG_NEED_URI == "fileUri-and-mimeType-required"
\* VideoUploader.tsx:23
CHUNK_SECONDS == 5 * 60
\* VideoUploader.tsx:28, 32: every decoded buffer is rendered at 16 kHz
SAMPLE_RATE == 16000
\* VideoUploader.tsx:188, 271
MSG_SELECT_MEDIA == "select-video-or-audio"
MSG_TIMEOUT == "timed-out"

(***************************************************************************)
(* Inputs.                                                                 *)
(***************************************************************************)
\* the requests of the ffmpeg route
Reqs == 1 .. MaxRequests

\* the durations (seconds) of the uploaded recordings: short ones, whole
\* multiples of the chunk length, ones with a tail, and the two on either
\* side of the size budget
Durations ==
  { CHUNK_MINUTES * 60 * k + d : k \in 0 .. (MaxChunks - 1), d \in {180, 900, 1800} }
    \cup { MAX_CHUNK_BYTES \div BYTES_PER_SECOND, MAX_CHUNK_BYTES \div BYTES_PER_SECOND + 1 }

\* the declared MIME types of an upload
MimeTypes == {"video/mp4", "audio/mpeg", "text/plain"}
\* type.startsWith("video/"), type.startsWith("audio/")
startsWithVideo(type) == type \in {"video/mp4"}
startsWithAudio(type) == type \in {"audio/mpeg"}

\* the texts a backend may answer with: the empty one and another (an answer
\* without a text part gives the placeholder, a third)
Texts == { <<>>, <<"a">> }

\* the messages of the backend's non-OK answers; "" is an answer without one
BackendMessages == {"not-ready", "quota", ""}
\* the one the specification classifies as transient
NOT_READY == "not-ready"

\* the lengths (samples at 16 kHz) decodeAudio may find in a selected file
SampleCounts ==
  {0} \cup { CHUNK_SECONDS * SAMPLE_RATE * k + d :
               k \in 0 .. (MaxChunks - 1),
               d \in {SAMPLE_RATE, CHUNK_SECONDS * SAMPLE_RATE} }

\* the files the user may select: one per length, and one that is no media
SelectableFiles ==
  [name : {"talk"}, type : {"video/mp4"}, samples : SampleCounts]
    \cup [name : {"song"}, type : {"audio/mpeg"}, samples : {SAMPLE_RATE}]
    \cup [name : {"notes"}, type : {"text/plain"}, samples : {0}]

\* the values of process.env.GEMINI_API_KEY
ApiKeys == {"", "your_api_key_here", "secret"}
\* part_001:376, 188 and part_000:6
apiKeyMissing(apiKey) == apiKey = "" \/ apiKey = "your_api_key_here"

\* what the status endpoint may report for a file ("" is a body without state)
FileStates == {"PROCESSING", "ACTIVE", "FAILED", ""}

VARIABLES
  route,   \* which entry point this behaviour exercises
  req,     \* per request of the ffmpeg route: the handler's locals and position
  fs,      \* the temporary directory: path -> content
  ui,      \* VideoUploader's React state
  sub,     \* the running handleSubmit: its locals and position
  api      \* the request of an upload-then-reference route

vars == <<route, req, fs, ui, sub, api>>

(***************************************************************************)
(* The temporary directory.                                                *)
(***************************************************************************)
\* part_001:407-408, 308: join(tempDir, `video-${timestamp}.mp4`) and so on
FilePath(kind, timestamp, idx) == [kind |-> kind, ts |-> timestamp, idx |-> idx]
videoPath(timestamp) == FilePath("video", timestamp, 0)
audioPath(timestamp) == FilePath("audio", timestamp, 0)
chunkPath(timestamp, i) == FilePath("chunk", timestamp, i)

\* writeFile / ffmpeg -y: create or overwrite
WriteFs(f, p, content) ==
  [q \in (DOMAIN f) \cup {p} |-> IF q = p THEN content ELSE f[q]]
\* unlink inside try/catch: removes the file if it is there
UnlinkFs(f, p) == [q \in (DOMAIN f) \ {p} |-> f[q]]
existsSync(f, p) == p \in DOMAIN f

\* the content of a media file: the window [lo, hi) of the recording of `owner`
Media(owner, lo, hi) == [owner |-> owner, lo |-> lo, hi |-> hi]

Min(a, b) == IF a <= b THEN a ELSE b

(***************************************************************************)
(* splitAudio's arithmetic, part_001:280-297 and 306-320.                  *)
(***************************************************************************)
\* stat(audioPath).size of a 64 kbit/s stream lasting `dur` seconds
audioSize(dur) == BYTES_PER_SECOND * dur
chunkDuration == CHUNK_MINUTES * 60
\* Math.floor in place of Math.ceil
numChunksFloor(totalDuration) == totalDuration \div chunkDuration
\* Math.ceil(totalDuration / chunkDuration)
numChunksOf(totalDuration) == (totalDuration + chunkDuration - 1) \div chunkDuration
startTimeOf(i) == i * chunkDuration
\* ffmpeg -ss startTime with no -t: the chunk runs to the end of the stream
ChunkWindowToEnd(owner, totalDuration, i) ==
  Media(owner, startTimeOf(i), totalDuration)

\* ffmpeg -ss startTime -t chunkDuration on a stream lasting totalDuration
ChunkWindow(owner, totalDuration, i) ==
  Media(owner, startTimeOf(i), Min(startTimeOf(i) + chunkDuration, totalDuration))

(***************************************************************************)
(* transcribeChunk, part_001:330-372.                                      *)
(***************************************************************************)
\* a call that ignores isFirstChunk
PromptAlwaysInitial(isFirstChunk) == PROMPT

\* part_001:353
PromptFor(isFirstChunk) == IF isFirstChunk THEN PROMPT ELSE PROMPT_CONTINUATION

\* an answer of the backend: OK with a text part, OK without one, or non-OK
\* with a message ("" when the body carries none)
Answers ==
  [ok : {TRUE}, hasText : {TRUE}, text : Texts, message : {""}]
    \cup [ok : {TRUE}, hasText : {FALSE}, text : {<<>>}, message : {""}]
    \cup [ok : {FALSE}, hasText : {FALSE}, text : {<<>>}, message : BackendMessages]

\* part_001:368-371: data.candidates?.[0]?.content?.parts?.[0]?.text ?? placeholder
TextOf(answer) == IF answer.hasText THEN answer.text ELSE PLACEHOLDER
\* a call that never looks at res.ok
ThrowsNever(answer) == FALSE
\* part_001:363: if (!res.ok) throw
Throws(answer) == ~answer.ok
\* a throw that always carries the fallback
ErrorOfFallback(answer) == MSG_TRANSCRIBE_FAILED
\* part_001:365: data.error?.message || fallback
ErrorOf(answer) == IF answer.message = "" THEN MSG_TRANSCRIBE_FAILED ELSE answer.message

\* a call of transcribeChunk as the backend sees it
Call(idx, prompt, audio) ==
  [idx |-> idx, prompt |-> prompt, audio |-> audio, outcome |-> "pending",
   hasText |-> FALSE, text |-> <<>>, message |-> ""]

\* the last call's record, settled
Settle(calls, outcome, text, message) ==
  [calls EXCEPT ![Len(calls)] =
     [@ EXCEPT !.outcome = outcome, !.text = text, !.message = message]]

\* the last call's record, with the backend's answer to it and, for an OK
\* answer, the text transcribeChunk returns for it
Answered(calls, answer) ==
  [Settle(calls, IF answer.ok THEN "ok" ELSE "error",
          IF answer.ok THEN TextOf(answer) ELSE <<>>, answer.message)
     EXCEPT ![Len(calls)].hasText = answer.hasText]

(***************************************************************************)
(* results.join("\n\n"), part_001:435 and VideoUploader.tsx:264.           *)
(***************************************************************************)
RECURSIVE JoinFrom(_, _, _)
JoinFrom(results, k, separator) ==
  IF k > Len(results) THEN <<>>
  ELSE IF k = Len(results) THEN results[k]
  ELSE results[k] \o separator \o JoinFrom(results, k + 1, separator)

\* a join with a single line break
JoinWithLineBreak(results) == JoinFrom(results, 1, <<"\n">>)

Join(results) == JoinFrom(results, 1, PARAGRAPH_BREAK)

(***************************************************************************)
(* POST of the ffmpeg route, part_001:374-454.                             *)
(***************************************************************************)
NoFile == [present |-> FALSE, type |-> "", dur |-> 0]
Uploads == {NoFile} \cup [present : {TRUE}, type : MimeTypes, dur : Durations]

NoResponse == [status |-> 0]
\* part_001:437-440
SuccessResponse(transcription, chunks) ==
  [status |-> 200, transcription |-> transcription, chunks |-> chunks]
\* part_001:447, 392-395, 399-402, 377-380
ErrorResponse(status, message) == [status |-> status, error |-> message]

IdleReq ==
  [pc |-> "idle", timestamp |-> 0, file |-> NoFile, tempFiles |-> <<>>,
   splitPaths |-> <<>>, totalDuration |-> 0, numChunks |-> 0,
   chunkPaths |-> <<>>, i |-> 0,
   results |-> <<>>, response |-> NoResponse, k |-> 1,
   \* history: what the request wrote, the calls it issued, whether a step threw
   \* whether splitAudio returned, how many planned chunks left no file
   created |-> {}, calls |-> <<>>, failed |-> FALSE, splitReturned |-> FALSE,
   dropped |-> 0,
   \* environment: how many segments had been started when the caller went
   \* away (-1: the caller is still there), whether the backend has stopped
   \* answering the call in flight ("no", or before the "headers", or in the "body")
   abandonedAt |-> -1, stalled |-> "no"]

\* a catch block that answers with what was transcribed so far
CatchBestEffort(rec, message) ==
  [rec EXCEPT !.pc = "finally", !.failed = TRUE,
              !.response = [status |-> 200, transcription |-> rec.results,
                            chunks |-> Len(rec.results)]]

\* part_001:441-447: the catch block, entered from any throw inside the try
Catch(rec, message) ==
  [rec EXCEPT !.pc = "finally", !.failed = TRUE,
              !.response = ErrorResponse(500, message)]

\* an early `return` inside the try: the finally block still runs
Reject(rec, message) ==
  [rec EXCEPT !.pc = "finally", !.response = ErrorResponse(400, message)]

\* part_001:435-440: the loop is over, join and answer
Finish(rec) ==
  [rec EXCEPT !.pc = "finally",
              !.response = SuccessResponse(Join(rec.results), Len(rec.chunkPaths))]

\* a loop that stops one segment short
NextChunkOrFinishEarly(rec) ==
  IF rec.i + 1 < Len(rec.chunkPaths) THEN [rec EXCEPT !.pc = "read"] ELSE Finish(rec)

\* part_001:427: the loop condition i < chunkPaths.length
NextChunkOrFinish(rec) ==
  IF rec.i < Len(rec.chunkPaths) THEN [rec EXCEPT !.pc = "read"] ELSE Finish(rec)

\* part_001:327, 420-421: splitAudio returns, its paths join tempFiles
SplitReturn(rec, paths) ==
  NextChunkOrFinish(
    [rec EXCEPT !.chunkPaths = paths, !.splitReturned = TRUE,
                !.tempFiles = @ \o SelectSeq(paths, LAMBDA p : p # audioPath(rec.timestamp)),
                !.i = 0])

(***************************************************************************)
(* VideoUploader, src/src/components/VideoUploader.tsx:173-283.            *)
(***************************************************************************)
NoSelection == [name |-> "", type |-> "", samples |-> 0]

\* VideoUploader.tsx:174-178: the useState initial values
InitialUi ==
  [file |-> NoSelection, transcription |-> <<>>, isLoading |-> FALSE,
   status |-> <<>>, error |-> ""]

IdleSubmit ==
  [pc |-> "idle", file |-> NoSelection, chunks |-> <<>>, i |-> 0, results |-> <<>>,
   \* history: the calls issued, whether a step threw, what setTranscription
   \* was given at the end
   calls |-> <<>>, failed |-> FALSE, shown |-> <<>>,
   \* environment: as for the ffmpeg route
   abandonedAt |-> -1, stalled |-> "no"]

\* VideoUploader.tsx:43-62: splitAudioBuffer, chunk by chunk from offset 0
RECURSIVE splitFrom(_, _, _)
splitFrom(offset, totalSamples, chunkSamples) ==
  IF offset < totalSamples
  THEN <<[lo |-> offset,
          hi |-> offset + Min(chunkSamples, totalSamples - offset)]>>
         \o splitFrom(offset + chunkSamples, totalSamples, chunkSamples)
  ELSE <<>>

splitAudioBuffer(totalSamples, chunkSeconds) ==
  splitFrom(0, totalSamples, chunkSeconds * SAMPLE_RATE)

\* the two versions of the component: the chunked pipeline (lines 1-473) and
\* the single-call one (lines 475-900); they share every handler but handleSubmit
ClientRoutes == {"client", "client2"}

\* VideoUploader.tsx:183-194, 577-588
HandleFile ==
  /\ route \in ClientRoutes
  /\ \E selectedFile \in SelectableFiles :
       ui' = IF ~startsWithVideo(selectedFile.type) /\ ~startsWithAudio(selectedFile.type)
             THEN [ui EXCEPT !.error = MSG_SELECT_MEDIA]
             ELSE [ui EXCEPT !.file = selectedFile, !.error = "",
                             !.transcription = <<>>]
  /\ UNCHANGED <<route, req, fs, sub, api>>

\* VideoUploader.tsx:306-312; the button is rendered only if file && !isLoading (417)
HandleReset ==
  /\ route \in ClientRoutes
  /\ ui.file # NoSelection /\ ~ui.isLoading
  /\ ui' = [ui EXCEPT !.file = NoSelection, !.transcription = <<>>, !.error = "",
                      !.status = <<>>]
  /\ UNCHANGED <<route, req, fs, sub, api>>

\* a catch block that does not look at the error's name
SubmitErrorOfAny(name, message) == message

\* VideoUploader.tsx:270-277: the message of the catch block
SubmitErrorOf(name, message) == IF name = "AbortError" THEN MSG_TIMEOUT ELSE message

\* a catch block that leaves the progress label standing
SubmitCatchKeepsStatus(u, name, message) ==
  [u EXCEPT !.error = SubmitErrorOf(name, message), !.isLoading = FALSE]

\* VideoUploader.tsx:268-282: the catch block and the finally block
SubmitCatch(u, name, message) ==
  [u EXCEPT !.error = SubmitErrorOf(name, message), !.status = <<>>,
            !.isLoading = FALSE]

\* VideoUploader.tsx:264-267, 280-282: join, show, finally
SubmitFinish(u, results) ==
  [u EXCEPT !.transcription = Join(results), !.status = <<>>, !.isLoading = FALSE]

\* a submit button that stays live while a request runs: handleSubmit itself
\* only returns early if no file is selected (VideoUploader.tsx:225)
HandleSubmitWhileLoading ==
  /\ route \in ClientRoutes
  /\ ui.file # NoSelection
  /\ ui' = [ui EXCEPT !.isLoading = TRUE, !.error = "", !.transcription = <<>>,
                      !.status = <<"auth">>]
  /\ sub' = [IdleSubmit EXCEPT !.pc = "getApiKey", !.file = ui.file]
  /\ UNCHANGED <<route, req, fs, api>>

\* VideoUploader.tsx:224-235; the button is disabled if !file || isLoading (380)
HandleSubmit ==
  /\ route \in ClientRoutes
  /\ ui.file # NoSelection /\ ~ui.isLoading
  /\ ui' = [ui EXCEPT !.isLoading = TRUE, !.error = "", !.transcription = <<>>,
                      !.status = <<"auth">>]
  /\ sub' = [IdleSubmit EXCEPT !.pc = "getApiKey", !.file = ui.file]
  /\ UNCHANGED <<route, req, fs, api>>

\* VideoUploader.tsx:217-222, 235-241: /api/upload answers with the key or an error
GetApiKeySettles ==
  /\ route \in ClientRoutes
  /\ sub.pc = "getApiKey"
  /\ \E outcome \in {"key", "rejected", MSG_NO_API_KEY} :
       IF outcome = "key"
       THEN /\ ui' = [ui EXCEPT !.status = <<"extract">>]
            /\ sub' = [sub EXCEPT !.pc = "decode"]
       ELSE /\ ui' = SubmitCatch(ui, IF outcome = "rejected" THEN "TypeError" ELSE "Error",
                              outcome)
            /\ sub' = [sub EXCEPT !.pc = "failed", !.failed = TRUE]
  /\ UNCHANGED <<route, req, fs, api>>

\* VideoUploader.tsx:252-259 and 122-157: label, encode chunk i, send the request
ClientIssue(s) ==
  [s EXCEPT !.pc = "fetch",
            !.calls = Append(@, Call(s.i, PromptFor(s.i = 0), s.chunks[s.i + 1]))]

\* VideoUploader.tsx:251: the loop condition i < chunks.length
ClientNext(s) ==
  IF s.i < Len(s.chunks) THEN ClientIssue(s)
  ELSE [s EXCEPT !.pc = "done", !.shown = Join(s.results)]

ClientUi(u, s) ==
  IF s.i < Len(s.chunks)
  THEN [u EXCEPT !.status = <<"transcribing", s.i + 1, Len(s.chunks)>>]
  ELSE SubmitFinish(u, s.results)

\* VideoUploader.tsx:241-259 and 26-40: decodeAudio settles; a file that is no
\* media, or decodes to no samples (OfflineAudioContext rejects length 0),
\* throws; otherwise split and start on chunk 0
DecodeSettles ==
  /\ route \in ClientRoutes
  /\ sub.pc = "decode"
  /\ \E decodable \in BOOLEAN :
       IF ~decodable \/ sub.file.samples = 0
       THEN /\ ui' = SubmitCatch(ui, "EncodingError", "decode-error")
            /\ sub' = [sub EXCEPT !.pc = "failed", !.failed = TRUE]
       ELSE IF route = "client"
       THEN LET s == [sub EXCEPT !.chunks = splitAudioBuffer(sub.file.samples, CHUNK_SECONDS),
                                 !.i = 0]
            IN /\ sub' = ClientNext(s)
               /\ ui' = ClientUi(ui, s)
       ELSE /\ sub' = [sub EXCEPT !.chunks = <<[lo |-> 0, hi |-> sub.file.samples]>>,
                                  !.i = 0, !.pc = "encode"]
            /\ ui' = [ui EXCEPT !.status = <<"send">>]
  /\ UNCHANGED <<route, req, fs, api>>

\* VideoUploader.tsx:641-676: the single-call version reads the WAV it
\* extracted, encodes it whole and sends the one request
EncodeSettles ==
  /\ route = "client2"
  /\ sub.pc = "encode"
  /\ sub' = ClientIssue(sub)
  /\ ui' = [ui EXCEPT !.status = <<"transcribing">>]
  /\ UNCHANGED <<route, req, fs, api>>

\* VideoUploader.tsx:130-170, 259-262: the fetch settles: aborted by the
\* 600 s timer (which runs until the headers are there, line 159), rejected,
\* non-OK (throw), or OK (text or placeholder)
ClientFetchSettles ==
  /\ route \in ClientRoutes
  /\ sub.pc = "fetch"
  /\ \/ /\ sub.stalled \in {"no", "headers"}
        /\ ui' = SubmitCatch(ui, "AbortError", "aborted")
        /\ sub' = [sub EXCEPT !.pc = "failed", !.failed = TRUE,
                              !.calls = Settle(@, "aborted", <<>>, "")]
     \/ /\ sub.stalled = "no"
        /\ ui' = SubmitCatch(ui, "TypeError", "fetch-failed")
        /\ sub' = [sub EXCEPT !.pc = "failed", !.failed = TRUE,
                              !.calls = Settle(@, "rejected", <<>>, "")]
     \/ /\ sub.stalled = "no"
        /\ \E answer \in Answers :
             IF Throws(answer)
             THEN /\ ui' = SubmitCatch(ui, "Error", ErrorOf(answer))
                  /\ sub' = [sub EXCEPT !.pc = "failed", !.failed = TRUE,
                                        !.calls = Answered(@, answer)]
             ELSE LET s == [sub EXCEPT !.calls = Answered(@, answer),
                                       !.results = Append(@, TextOf(answer)),
                                       !.i = @ + 1]
                  IN /\ sub' = ClientNext(s)
                     /\ ui' = ClientUi(ui, s)
  /\ UNCHANGED <<route, req, fs, api>>

\* VideoUploader.tsx:133-160: the backend stops answering the call in flight,
\* before the headers or in the body
ClientBackendStalls ==
  /\ route \in ClientRoutes
  /\ sub.pc = "fetch" /\ sub.stalled = "no"
  /\ \E where \in {"headers", "body"} : sub' = [sub EXCEPT !.stalled = where]
  /\ UNCHANGED <<route, req, fs, ui, api>>

\* VideoUploader.tsx:250-262: the user gives the request up while the loop
\* over the chunks runs (leaves the page, turns to another file); handleSubmit
\* holds no signal that could tell it
UserAbandons ==
  /\ route \in ClientRoutes
  /\ sub.pc = "fetch" /\ sub.abandonedAt = -1
  /\ sub' = [sub EXCEPT !.abandonedAt = Len(sub.calls)]
  /\ UNCHANGED <<route, req, fs, ui, api>>

Client ==
  \/ HandleFile
  \/ HandleReset
  \/ HandleSubmit
  \/ GetApiKeySettles
  \/ DecodeSettles
  \/ EncodeSettles
  \/ ClientFetchSettles
  \/ ClientBackendStalls
  \/ UserAbandons

(***************************************************************************)
(* The upload-then-reference routes: POST of part_001:186-228 ("rest",     *)
(* with waitForFileActive and transcribeWithGemini) and POST of            *)
(* part_001:14-99 ("sdk").                                                 *)
(***************************************************************************)
IdleApi ==
  [pc |-> "idle", i |-> 0, attempts |-> 0, state |-> "", response |-> NoResponse,
   \* history: the number of status checks made, the check that returned
   \* FAILED (0: none did), the calls issued, whether a step threw
   checks |-> 0, failedCheck |-> 0, calls |-> <<>>, failed |-> FALSE,
   \* the mimeType of the body; environment: as for the ffmpeg route
   mimeType |-> "", stalled |-> "no"]

\* a status check answered `state`
Checked(a, state) ==
  [a EXCEPT !.state = state, !.checks = @ + 1,
            !.failedCheck = IF state = "FAILED" /\ @ = 0 THEN a.checks + 1 ELSE @]

\* a catch block that answers and lets the handler go on
ApiCatchGoesOn(a, message) ==
  [a EXCEPT !.failed = TRUE, !.response = ErrorResponse(500, message)]

\* part_001:220-227 and 90-97: the catch block
ApiCatch(a, message) ==
  [a EXCEPT !.pc = "done", !.failed = TRUE, !.response = ErrorResponse(500, message)]

\* part_001:146-169 and 57-81: the generation request is sent, with PROMPT
ApiIssue(a) ==
  [a EXCEPT !.pc = "generate", !.calls = Append(@, Call(0, PROMPT, "fileUri"))]

\* part_001:186-204: the request arrives; fileUri and mimeType must be there,
\* nothing else is asked of them
RestStart ==
  /\ route = "rest"
  /\ api.pc = "idle"
  /\ \E apiKey \in ApiKeys, body \in {"unparsable", "incomplete", "complete"},
        mimeType \in MimeTypes :
       api' = IF apiKeyMissing(apiKey)
              THEN [api EXCEPT !.pc = "done", !.response = ErrorResponse(500, MSG_NO_API_KEY)]
              ELSE IF body = "unparsable" THEN ApiCatch(api, "json-error")
              ELSE IF body = "incomplete"
              THEN [api EXCEPT !.pc = "done", !.response = ErrorResponse(400, MSG_NEED_URI)]
              ELSE [api EXCEPT !.pc = "poll", !.i = 0, !.mimeType = mimeType]
  /\ UNCHANGED <<route, req, fs, ui, sub>>

\* a waiter that takes every state but PROCESSING and FAILED for ready
WaitVerdictNotProcessing(state) ==
  IF state = "PROCESSING" THEN "sleep"
  ELSE IF state = "FAILED" THEN "throw"
  ELSE "return"

\* a waiter that takes every state it does not know for a failure
WaitVerdictStrict(state) ==
  IF state = "ACTIVE" THEN "return"
  ELSE IF state = "PROCESSING" THEN "sleep"
  ELSE "throw"

\* a waiter that only looks for ACTIVE
WaitVerdictActiveOnly(state) == IF state = "ACTIVE" THEN "return" ELSE "sleep"

\* part_001:125-129: what waitForFileActive makes of a status answer
WaitVerdict(state) ==
  IF state = "ACTIVE" THEN "return"
  ELSE IF state = "FAILED" THEN "throw"
  ELSE "sleep"

\* part_001:119-129, 208-213: one status check of waitForFileActive
RestPoll ==
  /\ route = "rest"
  /\ api.pc = "poll"
  /\ \/ api' = ApiCatch(api, "fetch-failed")
     \/ \E state \in FileStates :
          LET a == Checked(api, state)
          IN api' = IF WaitVerdict(state) = "return" THEN ApiIssue(a)
                    ELSE IF WaitVerdict(state) = "throw" THEN ApiCatch(a, MSG_FILE_FAILED)
                    ELSE [a EXCEPT !.pc = "sleep"]
  /\ UNCHANGED <<route, req, fs, ui, sub>>

\* part_001:131-134, 119: the 5 s sleep ends; i++, and the loop condition
RestSleep ==
  /\ route = "rest"
  /\ api.pc = "sleep"
  /\ api' = IF api.i + 1 < maxAttempts
            THEN [api EXCEPT !.pc = "poll", !.i = @ + 1]
            ELSE ApiCatch([api EXCEPT !.i = @ + 1], MSG_FILE_TIMEOUT)
  /\ UNCHANGED <<route, req, fs, ui, sub>>

\* part_001:171-181, 213-219: transcribeWithGemini's fetch settles
RestGenerateSettles ==
  /\ route = "rest"
  /\ api.pc = "generate" /\ api.stalled = "no"
  /\ \/ api' = ApiCatch([api EXCEPT !.calls = Settle(@, "rejected", <<>>, "")], "fetch-failed")
     \/ \E answer \in Answers :
          api' = IF Throws(answer)
                 THEN ApiCatch([api EXCEPT !.calls = Answered(@, answer)],
                               ErrorOf(answer))
                 ELSE [api EXCEPT !.pc = "done",
                                  !.calls = Answered(@, answer),
                                  !.response = SuccessResponse(TextOf(answer), 1)]
  /\ UNCHANGED <<route, req, fs, ui, sub>>

\* part_001:14-32: the request arrives; fileUri and mimeType must be there,
\* nothing else is asked of them
SdkStart ==
  /\ route = "sdk"
  /\ api.pc = "idle"
  /\ \E apiKey \in ApiKeys, body \in {"unparsable", "incomplete", "complete"},
        mimeType \in MimeTypes :
       api' = IF apiKey = ""
              THEN [api EXCEPT !.pc = "done", !.response = ErrorResponse(500, MSG_NO_API_KEY)]
              ELSE IF body = "unparsable" THEN ApiCatch(api, "json-error")
              ELSE IF body = "incomplete"
              THEN [api EXCEPT !.pc = "done", !.response = ErrorResponse(400, MSG_NEED_URI)]
              ELSE [api EXCEPT !.pc = "get", !.attempts = 0, !.mimeType = mimeType]
  /\ UNCHANGED <<route, req, fs, ui, sub>>

\* part_001:44: the loop condition of the inline polling loop
SdkKeepsWaiting(state, attempts) == state = "PROCESSING" /\ attempts < maxAttempts

\* part_001:40, 47-53: ai.files.get settles (the first one, or one inside the
\* loop, which also counts the attempt), then the loop condition and the check
SdkGet ==
  /\ route = "sdk"
  /\ api.pc = "get"
  /\ \/ api' = ApiCatch(api, "sdk-error")
     \/ \E state \in FileStates :
          LET a == [Checked(api, state) EXCEPT
                      !.attempts = IF api.checks = 0 THEN 0 ELSE @ + 1]
          IN api' = IF SdkKeepsWaiting(state, a.attempts) THEN [a EXCEPT !.pc = "sleep"]
                    ELSE IF state # "ACTIVE" THEN ApiCatch(a, BadStateMessage(state))
                    ELSE ApiIssue(a)
  /\ UNCHANGED <<route, req, fs, ui, sub>>

\* part_001:46: the 5 s sleep ends
SdkSleep ==
  /\ route = "sdk"
  /\ api.pc = "sleep"
  /\ api' = [api EXCEPT !.pc = "get"]
  /\ UNCHANGED <<route, req, fs, ui, sub>>

\* part_001:57-89: generateContent settles: the SDK throws, or answers
SdkGenerateSettles ==
  /\ route = "sdk"
  /\ api.pc = "generate" /\ api.stalled = "no"
  /\ \/ \E message \in BackendMessages \ {""} :
          api' = ApiCatch([api EXCEPT !.calls = Settle(@, "error", <<>>, message)], message)
     \/ \E answer \in {a \in Answers : a.ok} :
          api' = [api EXCEPT !.pc = "done",
                             !.calls = Answered(@, answer),
                             !.response = [status |-> 200, transcription |-> TextOf(answer)]]
  /\ UNCHANGED <<route, req, fs, ui, sub>>

\* part_001:146-171 and 57-81: the backend stops answering the generation
\* request, before the headers or in the body
ApiBackendStalls ==
  /\ route \in {"rest", "sdk"}
  /\ api.pc = "generate" /\ api.stalled = "no"
  /\ \E where \in {"headers", "body"} : api' = [api EXCEPT !.stalled = where]
  /\ UNCHANGED <<route, req, fs, ui, sub>>

Api ==
  \/ RestStart
  \/ RestPoll
  \/ RestSleep
  \/ RestGenerateSettles
  \/ SdkStart
  \/ SdkGet
  \/ SdkSleep
  \/ SdkGenerateSettles
  \/ ApiBackendStalls

Init ==
  /\ route \in {"process", "client", "client2", "rest", "sdk"}
  /\ req = [r \in Reqs |-> IdleReq]
  /\ fs = <<>>
  /\ ui = InitialUi
  /\ sub = IdleSubmit
  /\ api = IdleApi

\* part_001:374-385: the request arrives; the credential is read, the clock too
PostStart(r) ==
  /\ route = "process"
  /\ req[r].pc = "idle"
  /\ \E apiKey \in ApiKeys, now \in 1 .. MaxClock, upload \in Uploads :
       req' = [req EXCEPT ![r] =
                 IF apiKeyMissing(apiKey)
                 THEN [@ EXCEPT !.pc = "done",
                                !.response = ErrorResponse(500, MSG_NO_API_KEY)]
                 ELSE [@ EXCEPT !.pc = "formData", !.timestamp = now,
                                !.file = upload]]
  /\ UNCHANGED <<route, fs, ui, sub, api>>

\* part_001:388-403: await request.formData(), then the two rejections
PostFormData(r) ==
  /\ route = "process"
  /\ req[r].pc = "formData"
  /\ \E parsed \in BOOLEAN :
       req' = [req EXCEPT ![r] =
                 IF ~parsed THEN Catch(@, "formdata-error")
                 ELSE IF ~@.file.present THEN Reject(@, MSG_NO_FILE)
                 ELSE IF ~startsWithVideo(@.file.type) THEN Reject(@, MSG_NOT_VIDEO)
                 ELSE [@ EXCEPT !.pc = "write"]]
  /\ UNCHANGED <<route, fs, ui, sub, api>>

\* part_001:406-412: mkdir, register both paths, write the upload (a failed
\* write may leave a partial file behind)
PostWrite(r) ==
  /\ route = "process"
  /\ req[r].pc = "write"
  /\ LET ts == req[r].timestamp
         reg == [req[r] EXCEPT !.tempFiles = @ \o <<videoPath(ts), audioPath(ts)>>]
         wrote == [reg EXCEPT !.created = @ \cup {videoPath(ts)}]
     IN \E outcome \in {"written", "mkdir-fails", "write-fails", "write-fails-partial"} :
          /\ fs' = IF outcome \in {"written", "write-fails-partial"}
                   THEN WriteFs(fs, videoPath(ts), Media(r, 0, reg.file.dur))
                   ELSE fs
          /\ req' = [req EXCEPT ![r] =
                       CASE outcome = "written" -> [wrote EXCEPT !.pc = "extract"]
                         [] outcome = "mkdir-fails" -> Catch(@, "mkdir-error")
                         [] outcome = "write-fails" -> Catch(reg, "write-error")
                         [] outcome = "write-fails-partial" -> Catch(wrote, "write-error")]
  /\ UNCHANGED <<route, ui, sub, api>>

\* part_001:414-417 and 262-273: ffmpeg writes the audio track, or fails: it
\* fails if the video is not there, and a failed run may leave a partial
\* output file behind
PostExtract(r) ==
  /\ route = "process"
  /\ req[r].pc = "extract"
  /\ LET ts == req[r].timestamp
         src == fs[videoPath(ts)]
     IN \E outcome \in (IF existsSync(fs, videoPath(ts))
                        THEN {"ok", "fails", "fails-partial"} ELSE {"fails"}) :
          /\ fs' = IF outcome = "fails" THEN fs
                   ELSE WriteFs(fs, audioPath(ts), Media(src.owner, src.lo, src.hi))
          /\ req' = [req EXCEPT ![r] =
                       LET w == IF outcome = "fails" THEN @
                                ELSE [@ EXCEPT !.created = @ \cup {audioPath(ts)}]
                       IN IF outcome = "ok" THEN [w EXCEPT !.pc = "stat"]
                          ELSE Catch(w, "ffmpeg-error")]
  /\ UNCHANGED <<route, ui, sub, api>>

\* part_001:280-286: stat the audio (it throws if the file is not there); at
\* most MAX_CHUNK_BYTES means no split
SplitStat(r) ==
  /\ route = "process"
  /\ req[r].pc = "stat"
  /\ LET audio == fs[audioPath(req[r].timestamp)]
     IN req' = [req EXCEPT ![r] =
                  IF ~existsSync(fs, audioPath(@.timestamp)) THEN Catch(@, "stat-error")
                  ELSE IF audioSize(audio.hi - audio.lo) <= MAX_CHUNK_BYTES
                  THEN SplitReturn(@, <<audioPath(@.timestamp)>>)
                  ELSE [@ EXCEPT !.pc = "probe"]]
  /\ UNCHANGED <<route, fs, ui, sub, api>>

\* part_001:288-304: ffprobe prints the duration, or fails; parseFloat of
\* anything that is no number is NaN, and then `i < numChunks` is false at once
SplitProbe(r) ==
  /\ route = "process"
  /\ req[r].pc = "probe"
  /\ LET audio == fs[audioPath(req[r].timestamp)]
     IN \E stdout \in (IF existsSync(fs, audioPath(req[r].timestamp))
                       THEN {"fails", "NaN", "duration"} ELSE {"fails"}) :
          req' = [req EXCEPT ![r] =
                    IF stdout = "fails" THEN Catch(@, "ffprobe-error")
                    ELSE IF stdout = "NaN" THEN SplitReturn(@, <<>>)
                    ELSE [@ EXCEPT !.pc = "chunk", !.i = 0,
                                   !.totalDuration = audio.hi - audio.lo,
                                   !.numChunks = numChunksOf(audio.hi - audio.lo)]]
  /\ UNCHANGED <<route, fs, ui, sub, api>>

\* part_001:306-327: one pass of the loop: ffmpeg cuts chunk i (it may exit 0
\* without an output file, or fail, with or without a partial file), existsSync
\* decides whether the path is kept; after the last pass splitAudio returns
SplitChunk(r) ==
  /\ route = "process"
  /\ req[r].pc = "chunk"
  /\ req[r].i < req[r].numChunks
  /\ LET rec == req[r]
         audio == fs[audioPath(rec.timestamp)]
         path == chunkPath(rec.timestamp, rec.i)
         cut == ChunkWindow(audio.owner, rec.totalDuration, rec.i)
     IN \E outcome \in (IF existsSync(fs, audioPath(rec.timestamp))
                        THEN {"ok", "no-output", "fails", "fails-partial"}
                        ELSE {"fails"}) :
          /\ fs' = IF outcome \in {"ok", "fails-partial"}
                   THEN WriteFs(fs, path, cut) ELSE fs
          /\ req' = [req EXCEPT ![r] =
                       LET w == IF outcome \in {"ok", "fails-partial"}
                                THEN [rec EXCEPT !.created = @ \cup {path}]
                                ELSE IF ~existsSync(fs, path) /\ outcome = "no-output"
                                THEN [rec EXCEPT !.dropped = @ + 1]
                                ELSE rec
                           paths == IF existsSync(fs', path)
                                    THEN Append(w.splitPaths, path) ELSE w.splitPaths
                       IN IF outcome \in {"fails", "fails-partial"}
                          THEN Catch(w, "ffmpeg-error")
                          ELSE IF rec.i + 1 < rec.numChunks
                          THEN [w EXCEPT !.splitPaths = paths, !.i = @ + 1]
                          ELSE SplitReturn([w EXCEPT !.splitPaths = paths], paths)]
  /\ UNCHANGED <<route, ui, sub, api>>

\* a loop that takes the first-segment flag from the position split planned
\* for the chunk
IssueFetchByPlannedIndex(rec, audio) ==
  [rec EXCEPT !.pc = "fetch",
              !.calls = Append(@, Call(rec.i, PromptFor(audio.lo = 0), audio))]

\* a loop that sends the request and goes on without awaiting the answer
IssueFetchWithoutAwait(rec, audio) ==
  [rec EXCEPT !.pc = IF rec.i + 1 < Len(rec.chunkPaths) THEN "read" ELSE "fetch",
              !.i = IF rec.i + 1 < Len(rec.chunkPaths) THEN @ + 1 ELSE @,
              !.calls = Append(@, Call(rec.i, PromptFor(rec.i = 0), audio))]

\* part_001:431 and 335-359: transcribeChunk(apiKey, chunkBuffer, i === 0)
\* sends the request and awaits the answer
IssueFetch(rec, audio) ==
  [rec EXCEPT !.pc = "fetch",
              !.calls = Append(@, Call(rec.i, PromptFor(rec.i = 0), audio))]

\* part_001:428-431: readFile of chunk i, then the call is issued
PostReadChunk(r) ==
  /\ route = "process"
  /\ req[r].pc = "read"
  /\ LET path == req[r].chunkPaths[req[r].i + 1]
     IN req' = [req EXCEPT ![r] =
                  IF existsSync(fs, path) THEN IssueFetch(@, fs[path])
                  ELSE Catch(@, "read-error")]
  /\ UNCHANGED <<route, fs, ui, sub, api>>

\* part_001:432-433: results.push(text), i++
PushResult(rec, text) ==
  NextChunkOrFinish([rec EXCEPT !.results = Append(@, text), !.i = @ + 1])

\* part_001:339-371: the fetch settles: it rejects (network, or a body that
\* is no JSON), or the answer is non-OK (throw), or OK (the text, or the
\* placeholder)
PostFetchSettles(r) ==
  /\ route = "process"
  /\ req[r].pc = "fetch" /\ req[r].stalled = "no"
  /\ \/ req' = [req EXCEPT ![r] =
                  Catch([@ EXCEPT !.calls = Settle(@, "rejected", <<>>, "")], "fetch-failed")]
     \/ \E answer \in Answers :
          req' = [req EXCEPT ![r] =
                    IF Throws(answer)
                    THEN Catch([@ EXCEPT !.calls = Answered(@, answer)],
                               ErrorOf(answer))
                    ELSE PushResult([@ EXCEPT !.calls = Answered(@, answer)],
                                    TextOf(answer))]
  /\ UNCHANGED <<route, fs, ui, sub, api>>

\* part_001:448-453: one pass of the cleanup loop, unlink(tempFiles[k])
PostUnlink(r) ==
  /\ route = "process"
  /\ req[r].pc = "finally"
  /\ IF req[r].k <= Len(req[r].tempFiles)
     THEN /\ fs' = UnlinkFs(fs, req[r].tempFiles[req[r].k])
          /\ req' = [req EXCEPT ![r] = [@ EXCEPT !.k = @ + 1]]
     ELSE /\ fs' = fs
          /\ req' = [req EXCEPT ![r] = [@ EXCEPT !.pc = "done"]]
  /\ UNCHANGED <<route, ui, sub, api>>

\* part_001:339-361: the backend stops answering the call in flight, before
\* the headers or in the body
BackendStalls(r) ==
  /\ route = "process"
  /\ req[r].pc = "fetch" /\ req[r].stalled = "no"
  /\ \E where \in {"headers", "body"} :
       req' = [req EXCEPT ![r] = [@ EXCEPT !.stalled = where]]
  /\ UNCHANGED <<route, fs, ui, sub, api>>

\* part_001:374, 426-433: the caller of POST goes away (request.signal aborts,
\* or the maxDuration of the route elapses) while the loop over the chunks
\* runs; POST never reads the signal
CallerAbandons(r) ==
  /\ route = "process"
  /\ req[r].pc \in {"read", "fetch"} /\ req[r].abandonedAt = -1
  /\ req' = [req EXCEPT ![r] =
               [@ EXCEPT !.abandonedAt = IF req[r].pc = "read" THEN req[r].i + 1
                                         ELSE Len(req[r].calls)]]
  /\ UNCHANGED <<route, fs, ui, sub, api>>

Post(r) ==
  \/ PostStart(r)
  \/ PostFormData(r)
  \/ PostWrite(r)
  \/ PostExtract(r)
  \/ SplitStat(r)
  \/ SplitProbe(r)
  \/ SplitChunk(r)
  \/ PostReadChunk(r)
  \/ PostFetchSettles(r)
  \/ PostUnlink(r)

\* one request at a time on the ffmpeg route, and what its backend and its
\* caller may do to it
Next == Post(1) \/ BackendStalls(1) \/ CallerAbandons(1) \/ Client \/ Api

Spec == Init /\ [][Next]_vars

\* every await that settles resumes its handler: the next step of a running
\* handler is weakly fair; nothing is asked of the user, the caller or the
\* backend
FairSteps ==
  /\ WF_vars(Post(1))
  /\ WF_vars(GetApiKeySettles \/ DecodeSettles \/ EncodeSettles \/ ClientFetchSettles)
  /\ WF_vars(RestPoll \/ RestSleep \/ RestGenerateSettles
               \/ SdkGet \/ SdkSleep \/ SdkGenerateSettles)

SpecFair == Spec /\ FairSteps

(***************************************************************************)
(* Two requests of the ffmpeg route, handled concurrently: the steps of    *)
(* the two handlers interleave at their awaits.                            *)
(***************************************************************************)
\* the uploads of the two requests: none, or a recording that is split in two
PairUploads ==
  {NoFile} \cup [present : {TRUE}, type : {"video/mp4"},
                 dur : {MAX_CHUNK_BYTES \div BYTES_PER_SECOND + 1}]

\* the two requests draw their uploads from the set above, the first request
\* arrives at the first clock value, and the backend answers with one text or
\* with one error
PairInputs ==
  /\ req[1].timestamp <= 1
  /\ \A r \in Reqs :
       /\ req[r].file \in PairUploads
       /\ \A j \in 1 .. Len(req[r].calls) :
            /\ req[r].calls[j].outcome = "ok" => req[r].calls[j].text = <<"a">>
            /\ req[r].calls[j].outcome = "error" => req[r].calls[j].message = "quota"

InitPair == Init /\ route = "process"

NextPair == (\E r \in Reqs : Post(r)) /\ PairInputs'

SpecPair == InitPair /\ [][NextPair]_vars

(***************************************************************************)
(* Properties.                                                             *)
(***************************************************************************)
IsSuccess(response) == response.status = 200
IsErrorOnly(response) ==
  /\ response.status \in {400, 500}
  /\ DOMAIN response = {"status", "error"}

Pending(calls) == { j \in 1 .. Len(calls) : calls[j].outcome = "pending" }

\* what holds of a request one of whose steps has thrown
C1_Failed ==
  /\ \A r \in Reqs :
       req[r].failed =>
         /\ req[r].pc \in {"finally", "done"}
         /\ IsErrorOnly(req[r].response)
         /\ Pending(req[r].calls) = {}
         /\ Len(req[r].calls) <= Len(req[r].results) + 1
  /\ sub.failed =>
       /\ sub.pc = "failed"
       /\ ui.transcription = <<>> /\ sub.shown = <<>>
       /\ Pending(sub.calls) = {}
       /\ Len(sub.calls) <= Len(sub.results) + 1
  /\ api.failed => api.pc = "done" /\ IsErrorOnly(api.response) /\ Pending(api.calls) = {}

\* what a step may do after that
C1_Frozen ==
  /\ \A r \in Reqs :
       req[r].failed =>
         /\ req'[r].failed
         /\ req'[r].calls = req[r].calls
         /\ req'[r].response = req[r].response
  /\ (sub.failed /\ sub'.failed) => sub'.calls = sub.calls
  /\ api.failed => api' = api

\* C1: once a step of a request has failed (thrown), the request issues no
\* further transcription call, its answer is an error and nothing else, and
\* it never answers or displays a transcript.
C1_FailureAbortsRequest == [](C1_Failed) /\ [][C1_Frozen]_vars

\* C1 witness: a request failed on a later segment after earlier ones had
\* succeeded, with segments left that were never sent, and has ended.
C1_Witness ==
  \/ \E r \in Reqs :
       /\ req[r].failed /\ req[r].pc = "done"
       /\ Len(req[r].results) >= 1
       /\ Len(req[r].calls) = Len(req[r].results) + 1
       /\ Len(req[r].calls) < Len(req[r].chunkPaths)
  \/ /\ sub.failed /\ Len(sub.results) >= 1
     /\ Len(sub.calls) < Len(sub.chunks)

\* the texts the backend answered, in the order of the calls
AnsweredTexts(calls) == [j \in 1 .. Len(calls) |-> calls[j].text]

RECURSIVE OffsetOf(_, _)
\* where text k starts in a transcript of `texts` (0-based)
OffsetOf(texts, k) ==
  IF k = 1 THEN 0
  ELSE OffsetOf(texts, k - 1) + Len(texts[k - 1]) + Len(PARAGRAPH_BREAK)

\* `transcript` is texts[1], "\n\n", texts[2], ..., texts[n], for n >= 1
IsJoined(transcript, texts) ==
  LET n == Len(texts)
  IN /\ Len(transcript) = OffsetOf(texts, n) + Len(texts[n])
     /\ \A k \in 1 .. n :
          /\ \A c \in 1 .. Len(texts[k]) :
               transcript[OffsetOf(texts, k) + c] = texts[k][c]
          /\ k < n =>
               /\ transcript[OffsetOf(texts, k) + Len(texts[k]) + 1] = "\n"
               /\ transcript[OffsetOf(texts, k) + Len(texts[k]) + 2] = "\n"

\* C2: the transcript of a successful request with n >= 1 segments is the n
\* answered texts in index order with "\n\n" between neighbours, n - 1
\* separators in all, nothing reordered, dropped, duplicated or merged.
C2_JoinedInIndexOrder ==
  /\ \A r \in Reqs :
       (IsSuccess(req[r].response) /\ req[r].response.chunks >= 1) =>
         /\ Len(req[r].calls) = req[r].response.chunks
         /\ \A j \in 1 .. Len(req[r].calls) : req[r].calls[j].idx = j - 1
         /\ IsJoined(req[r].response.transcription, AnsweredTexts(req[r].calls))
  /\ sub.pc = "done" =>
       /\ Len(sub.calls) = Len(sub.chunks) /\ Len(sub.calls) >= 1
       /\ \A j \in 1 .. Len(sub.calls) : sub.calls[j].idx = j - 1
       /\ IsJoined(sub.shown, AnsweredTexts(sub.calls))
       /\ ui.transcription \in {sub.shown, <<>>}

\* C2 witness: a success with three segments whose texts differ.
C2_Witness ==
  \/ \E r \in Reqs :
       /\ IsSuccess(req[r].response) /\ req[r].response.chunks = 3
       /\ req[r].calls[1].text # req[r].calls[2].text
       /\ req[r].calls[3].text = <<>>
  \/ /\ sub.pc = "done" /\ Len(sub.calls) = 3
     /\ sub.calls[1].text # sub.calls[2].text
     /\ ui.transcription = sub.shown

SequentialCalls(calls) ==
  /\ Cardinality(Pending(calls)) <= 1
  /\ \A j \in 2 .. Len(calls) :
       /\ calls[j - 1].outcome = "ok"
       /\ calls[j].idx = calls[j - 1].idx + 1

\* C3: at most one transcription call of a request is in flight, and the
\* call for a segment is issued only after the previous segment's call was
\* answered with success.
C3_StrictlySequential ==
  /\ \A r \in Reqs : SequentialCalls(req[r].calls)
  /\ SequentialCalls(sub.calls)
  /\ SequentialCalls(api.calls)

\* C3 witness: the call for a later segment is in flight.
C3_Witness ==
  \/ \E r \in Reqs : Len(req[r].calls) >= 2 /\ Pending(req[r].calls) # {}
  \/ Len(sub.calls) >= 2 /\ Pending(sub.calls) # {}

\* call j is for segment j of `segments`, with the prompt its index asks for
PromptsByIndex(calls, segments) ==
  \A j \in 1 .. Len(calls) :
    /\ calls[j].idx = j - 1
    /\ calls[j].audio = segments[j]
    /\ (calls[j].prompt = PROMPT) <=> (calls[j].idx = 0)
    /\ (calls[j].prompt = PROMPT_CONTINUATION) <=> (calls[j].idx > 0)

\* C4: a call carries the Initial prompt exactly if it is for the segment at
\* index 0 of the returned sequence; every later segment's call carries the
\* Continuation prompt.
C4_InitialPromptIffFirst ==
  /\ \A r \in Reqs :
       req[r].pc \in {"read", "fetch"} =>
         PromptsByIndex(req[r].calls,
                        [j \in 1 .. Len(req[r].chunkPaths) |-> fs[req[r].chunkPaths[j]]])
  /\ \A r \in Reqs : \A j \in 1 .. Len(req[r].calls) :
       (req[r].calls[j].prompt = PROMPT) <=> (j = 1)
  /\ PromptsByIndex(sub.calls, sub.chunks)

\* C4 witness: a request has sent a first and a later segment.
C4_Witness ==
  \/ \E r \in Reqs :
       /\ req[r].pc = "fetch" /\ Len(req[r].calls) >= 2
       /\ req[r].calls[2].prompt = PROMPT_CONTINUATION
  \/ Len(sub.calls) >= 2 /\ sub.calls[2].prompt = PROMPT_CONTINUATION

\* the windows tile [0, total) in order, each `size` long but the last, which
\* is not empty and not longer
Tiles(windows, total, size) ==
  LET n == Len(windows)
  IN /\ n >= 1
     /\ (n - 1) * size < total /\ total <= n * size
     /\ windows[1].lo = 0
     /\ windows[n].hi = total
     /\ \A j \in 1 .. n :
          /\ windows[j].lo = (j - 1) * size
          /\ windows[j].lo < windows[j].hi
          /\ windows[j].hi - windows[j].lo <= size
          /\ j < n => (windows[j].hi = windows[j + 1].lo
                       /\ windows[j].hi - windows[j].lo = size)

\* the segments splitAudio returned, as the windows their files hold
ReturnedWindows(r) ==
  [j \in 1 .. Len(req[r].chunkPaths) |-> fs[req[r].chunkPaths[j]]]

\* C5: for a recording over budget that lasts D, split plans ceil(D/C) chunks
\* and returns them minus those that left no file; the chunk planned at i
\* covers [i*C, min((i+1)*C, D)); the returned segments are in index order and
\* do not overlap; with nothing dropped they cover [0, D) exactly once.
\* splitAudioBuffer of the chunked component does the same on samples (the
\* single-call component has no split).
C5_SplitCoversOnce ==
  /\ \A r \in Reqs :
       (req[r].splitReturned /\ req[r].numChunks > 0 /\ req[r].pc \in {"read", "fetch"}) =>
         LET D == req[r].file.dur
             C == CHUNK_MINUTES * 60
             n == req[r].numChunks
             paths == req[r].chunkPaths
             w == ReturnedWindows(r)
         IN /\ (n - 1) * C < D /\ D <= n * C
            /\ Len(paths) = n - req[r].dropped
            /\ \A j \in 1 .. Len(paths) :
                 /\ paths[j].idx \in 0 .. (n - 1)
                 /\ w[j].lo = paths[j].idx * C
                 /\ w[j].hi = (IF (paths[j].idx + 1) * C <= D
                               THEN (paths[j].idx + 1) * C ELSE D)
                 /\ w[j].lo < w[j].hi
                 /\ \A k \in (j + 1) .. Len(paths) :
                      paths[j].idx < paths[k].idx /\ w[j].hi <= w[k].lo
            /\ req[r].dropped = 0 => Tiles(w, D, C)
  /\ (route = "client" /\ sub.pc \in {"fetch", "done", "failed"} /\ Len(sub.chunks) > 0) =>
       Tiles(sub.chunks, sub.file.samples, CHUNK_SECONDS * SAMPLE_RATE)

\* C5 witness: a recording of two full chunks and a tail was split in three,
\* or one of its chunks left no file and two segments came back.
C5_Witness ==
  \/ \E r \in Reqs :
       /\ req[r].splitReturned /\ req[r].pc = "read" /\ req[r].numChunks = 3
       /\ req[r].file.dur < 3 * CHUNK_MINUTES * 60
       /\ Len(req[r].chunkPaths) = 3
  \/ /\ sub.pc = "fetch" /\ Len(sub.chunks) = 3
     /\ sub.file.samples < 3 * CHUNK_SECONDS * SAMPLE_RATE

\* C5 witness, second case: a planned chunk left no file.
C5_WitnessDropped ==
  \E r \in Reqs :
    /\ req[r].splitReturned /\ req[r].pc = "read" /\ req[r].numChunks = 3
    /\ req[r].dropped = 1 /\ Len(req[r].chunkPaths) = 2
    /\ req[r].chunkPaths[2].idx = 2

\* C6: whenever split has returned there is at least one segment, and for a
\* recording under the budget there is exactly one, the recording itself.
C6_AtLeastOneSegment ==
  /\ \A r \in Reqs :
       req[r].splitReturned =>
         /\ Len(req[r].chunkPaths) >= 1
         /\ audioSize(req[r].file.dur) <= MAX_CHUNK_BYTES =>
              /\ req[r].chunkPaths = <<audioPath(req[r].timestamp)>>
              /\ req[r].pc \in {"read", "fetch"} =>
                   ReturnedWindows(r) = <<Media(r, 0, req[r].file.dur)>>
  /\ sub.pc \in {"fetch", "done"} =>
       /\ Len(sub.chunks) >= 1
       /\ sub.file.samples <= CHUNK_SECONDS * SAMPLE_RATE =>
            sub.chunks = <<[lo |-> 0, hi |-> sub.file.samples]>>

\* the number of calls made for the segment at index idx
AttemptsFor(calls, idx) == Cardinality({ j \in 1 .. Len(calls) : calls[j].idx = idx })

LastCall(calls) == calls[Len(calls)]

\* C7: a request does not give up on a segment whose call was answered
\* "not ready" before it has made 10 attempts for that segment.
C7_RetriesUntilReady ==
  /\ \A r \in Reqs :
       (req[r].calls # <<>> /\ LastCall(req[r].calls).outcome = "error"
          /\ LastCall(req[r].calls).message = NOT_READY) =>
         AttemptsFor(req[r].calls, LastCall(req[r].calls).idx) >= 10
  /\ (sub.calls # <<>> /\ LastCall(sub.calls).outcome = "error"
        /\ LastCall(sub.calls).message = NOT_READY) =>
       AttemptsFor(sub.calls, LastCall(sub.calls).idx) >= 10

\* the backend's terminal errors: every non-OK answer but "not ready"
IsTerminalError(call) == call.outcome = "error" /\ call.message # NOT_READY

\* C8: a terminal error on the first attempt for a segment is the only
\* attempt for that segment and the last call of the request; in the very
\* step that receives it the request is in its catch block (no sleep lies
\* between), and the request fails with that error.
C8_TerminalErrorNotRetried ==
  /\ \A r \in Reqs : \A j \in 1 .. Len(req[r].calls) :
       IsTerminalError(req[r].calls[j]) =>
         /\ j = Len(req[r].calls)
         /\ AttemptsFor(req[r].calls, req[r].calls[j].idx) = 1
         /\ Pending(req[r].calls) = {}
         /\ req[r].pc \in {"finally", "done"} /\ req[r].failed
         /\ req[r].response =
              ErrorResponse(500, IF req[r].calls[j].message = ""
                                 THEN MSG_TRANSCRIBE_FAILED
                                 ELSE req[r].calls[j].message)
  /\ \A j \in 1 .. Len(sub.calls) :
       IsTerminalError(sub.calls[j]) =>
         /\ j = Len(sub.calls)
         /\ AttemptsFor(sub.calls, sub.calls[j].idx) = 1
         /\ sub.pc = "failed" /\ ui.transcription = <<>>

\* C8 witness: the backend refused the first segment's call for quota, and
\* the request has ended.
C8_Witness ==
  \E r \in Reqs :
    /\ req[r].pc = "done" /\ Len(req[r].calls) = 1
    /\ Len(req[r].chunkPaths) >= 2
    /\ req[r].calls[1].outcome = "error" /\ req[r].calls[1].message = "quota"

\* C9: when a request has ended, no temporary file it wrote is left.
C9_TempFilesDeleted ==
  \A r \in Reqs :
    req[r].pc = "done" => \A p \in req[r].created : ~existsSync(fs, p)

\* C10: after a status check returned FAILED the request makes no further
\* status check and no transcription call, and it has ended with an error.
C10_FailedStateAborts ==
  api.failedCheck > 0 =>
    /\ api.checks = api.failedCheck
    /\ api.state = "FAILED"
    /\ api.calls = <<>>
    /\ api.pc = "done" /\ api.failed
    /\ IsErrorOnly(api.response)

\* C10 witness: the third status check returned FAILED.
C10_Witness == api.failedCheck = 3 /\ route = "rest"

\* C10 witness on the other route.
C10_WitnessSdk == api.failedCheck = 3 /\ route = "sdk"

\* C11: a request makes at most maxAttempts status checks for its file, and
\* one that ends after maxAttempts checks without having seen ACTIVE has
\* failed with an error and has issued no transcription call.
C11_AtMostMaxAttemptsChecks ==
  /\ api.checks <= maxAttempts
  /\ (api.pc = "done" /\ api.checks >= maxAttempts /\ api.state # "ACTIVE") =>
       /\ api.failed /\ IsErrorOnly(api.response)
       /\ api.calls = <<>>

\* C12: a request whose recording yielded zero segments does not answer with
\* success (an empty transcript and a segment count of 0): it fails.
C12_ZeroSegmentsFail ==
  /\ \A r \in Reqs :
       (req[r].splitReturned /\ req[r].chunkPaths = <<>>
          /\ req[r].pc \in {"finally", "done"}) =>
         /\ ~IsSuccess(req[r].response)
         /\ IsErrorOnly(req[r].response)
  /\ sub.pc = "done" => sub.chunks # <<>>

\* C13: two requests handled concurrently do not touch each other's
\* temporary files: no path is written by both, every file a running request
\* wrote is still there, and the audio a request sends to the backend comes
\* from its own upload.
C13_RequestsIndependent ==
  \A r1, r2 \in Reqs :
    r1 # r2 =>
      /\ req[r1].created \cap req[r2].created = {}
      /\ req[r1].pc \notin {"finally", "done"} =>
           \A p \in req[r1].created : existsSync(fs, p)
      /\ \A j \in 1 .. Len(req[r1].calls) : req[r1].calls[j].audio.owner = r1
      /\ \A p \in req[r1].created : existsSync(fs, p) => fs[p].owner = r1

\* C14: once the caller has abandoned a request, the request issues no
\* transcription call for a segment that had not been started by then.
C14_CancellationObserved ==
  /\ \A r \in Reqs :
       req[r].abandonedAt >= 0 => Len(req[r].calls) <= req[r].abandonedAt
  /\ sub.abandonedAt >= 0 => Len(sub.calls) <= sub.abandonedAt

\* C15: a transcription call whose backend never answers does not block its
\* request: a step that ends the wait (the call's own timeout) is enabled.
C15_CallsTimeOut ==
  /\ \A r \in Reqs :
       (req[r].pc = "fetch" /\ req[r].stalled = "headers") => ENABLED PostFetchSettles(r)
  /\ (sub.pc = "fetch" /\ sub.stalled = "headers") => ENABLED ClientFetchSettles
  /\ (api.pc = "generate" /\ api.stalled = "headers") =>
       ENABLED (RestGenerateSettles \/ SdkGenerateSettles)

\* the messages of the failures that are no timeout
GenericMessages ==
  (BackendMessages \ {""})
    \cup {MSG_TRANSCRIBE_FAILED, MSG_FILE_FAILED, BadStateMessage("FAILED"),
          BadStateMessage(""), "fetch-failed", "sdk-error", "json-error"}

\* the status polling of the request ran out
PollingExhausted ==
  \/ route = "rest" /\ api.i = maxAttempts
  \/ route = "sdk" /\ api.pc = "done" /\ api.attempts = maxAttempts
       /\ api.state = "PROCESSING"

\* the message polling that ran out is reported with
PollingTimeoutMessage ==
  IF route = "rest" THEN MSG_FILE_TIMEOUT ELSE BadStateMessage("PROCESSING")

C16_Polling ==
  /\ PollingExhausted =>
       /\ api.pc = "done" /\ api.failed /\ api.calls = <<>>
       /\ api.response = ErrorResponse(500, PollingTimeoutMessage)
       /\ api.response.error \notin GenericMessages
  /\ (api.failed /\ ~PollingExhausted) =>
       api.response.error \notin {MSG_FILE_TIMEOUT, BadStateMessage("PROCESSING")}

C16_Call ==
  /\ (sub.pc = "fetch" /\ sub'.pc = "failed") =>
       /\ LastCall(sub'.calls).outcome = "aborted" =>
            ui'.error = MSG_TIMEOUT /\ ui'.error \notin GenericMessages
       /\ LastCall(sub'.calls).outcome # "aborted" => ui'.error # MSG_TIMEOUT
       /\ ~ui'.isLoading /\ ui'.transcription = <<>>
  /\ (sub.pc = "failed" /\ sub'.pc = "failed") => sub'.calls = sub.calls

\* C16: a timeout (the status polling ran out, or a transcription call was
\* aborted by its timer) ends the request, and the message it is reported
\* with is the timeout's own: no other failure is reported with it.
C16_TimeoutIsDistinct == [](C16_Polling) /\ [][C16_Call]_vars

\* C16 witness: the second chunk's call was aborted by its timer and the
\* timeout message is shown.
C16_Witness ==
  /\ sub.pc = "failed" /\ Len(sub.calls) = 2
  /\ LastCall(sub.calls).outcome = "aborted" /\ ui.error = MSG_TIMEOUT

\* C16 witness, the other timeout: the status polling ran out.
C16_WitnessPolling == PollingExhausted /\ api.pc = "done"

\* C17: a success carries the transcript and the number of segments that
\* were transcribed and joined (1 for a recording under the budget), a
\* failure carries an error and nothing else.
C17_ResultShape ==
  /\ \A r \in Reqs :
       req[r].response # NoResponse =>
         IF IsSuccess(req[r].response)
         THEN /\ DOMAIN req[r].response = {"status", "transcription", "chunks"}
              /\ req[r].response.chunks = Len(req[r].results)
              /\ req[r].response.chunks =
                   Cardinality({ j \in 1 .. Len(req[r].calls) :
                                   req[r].calls[j].outcome = "ok" })
              /\ req[r].response.transcription = Join(req[r].results)
              /\ audioSize(req[r].file.dur) <= MAX_CHUNK_BYTES =>
                   req[r].response.chunks = 1
         ELSE IsErrorOnly(req[r].response)
  /\ api.response # NoResponse =>
       IF IsSuccess(api.response)
       THEN /\ DOMAIN api.response = {"status", "transcription", "chunks"}
            /\ api.response.chunks = 1 /\ Len(api.calls) = 1
       ELSE IsErrorOnly(api.response)

isMedia(type) == startsWithVideo(type) \/ startsWithAudio(type)

\* C18: an upload whose declared type is neither audio/ nor video/ is
\* rejected at once: the request answers with an error, the upload does not
\* become the selected file, no temporary file is written, no status check
\* and no transcription call is made.
C18_NonMediaRejected ==
  /\ \A r \in Reqs :
       (req[r].file.present /\ ~isMedia(req[r].file.type)
          /\ req[r].pc \notin {"idle", "formData"}) =>
         /\ IsErrorOnly(req[r].response)
         /\ req[r].created = {} /\ req[r].tempFiles = <<>>
         /\ req[r].calls = <<>>
  /\ ui.file = NoSelection \/ isMedia(ui.file.type)
  /\ sub.file = NoSelection \/ isMedia(sub.file.type)
  /\ (api.mimeType # "" /\ ~isMedia(api.mimeType)) =>
       /\ api.pc = "done" /\ IsErrorOnly(api.response)
       /\ api.checks = 0 /\ api.calls = <<>>

\* a request has been submitted and has not ended
Running(rec) == rec.pc \notin {"idle", "done", "failed"}

C19_ExactlyOne ==
  /\ \A r \in Reqs :
       /\ req[r].response # NoResponse =>
            /\ IsSuccess(req[r].response) # IsErrorOnly(req[r].response)
            /\ req[r].failed => IsErrorOnly(req[r].response)
            /\ req[r].pc \in {"finally", "done"}
       /\ req[r].pc = "done" => req[r].response # NoResponse
  /\ api.pc = "done" <=> api.response # NoResponse
  /\ api.pc = "done" =>
       /\ IsSuccess(api.response) # IsErrorOnly(api.response)
       /\ api.failed => IsErrorOnly(api.response)
  /\ sub.pc = "done" => ~sub.failed
  /\ sub.pc = "failed" <=> sub.failed

C19_Absorbing ==
  /\ \A r \in Reqs :
       req[r].response # NoResponse =>
         /\ req'[r].response = req[r].response
         /\ req'[r].calls = req[r].calls
  /\ api.response # NoResponse =>
       /\ api'.response = api.response
       /\ api'.checks = api.checks /\ api'.calls = api.calls
  /\ (sub.pc = "failed" /\ sub'.pc # "getApiKey") => sub' = sub

\* a handler is running (a behaviour runs the handlers of one route)
SomeRunning == (\E r \in Reqs : Running(req[r])) \/ Running(api) \/ Running(sub)

\* a transcription call of the running handler will never return
NeverReturns ==
  \/ \E r \in Reqs : req[r].stalled # "no"
  \/ api.stalled # "no"
  \/ sub.stalled = "body"

C19_Ends == SomeRunning ~> (~SomeRunning \/ NeverReturns)

\* C19: a request that has ended has ended in exactly one of success and
\* error; once it has answered, its answer stays and it makes no further
\* status check or transcription call; and a submitted request whose external
\* calls all return ends.
C19_EndsOnceAndForAll == [](C19_ExactlyOne) /\ [][C19_Absorbing]_vars /\ C19_Ends

\* C19 witness: a request over three chunks has ended with success, another
\* with an error after its second chunk.
C19_Witness ==
  \/ \E r \in Reqs :
       /\ req[r].pc = "done" /\ IsSuccess(req[r].response)
       /\ req[r].response.chunks = 3
  \/ \E r \in Reqs :
       /\ req[r].pc = "done" /\ req[r].failed /\ Len(req[r].calls) = 2

\* what the catch block makes of the backend's message
Reported(message) == IF message = "" THEN MSG_TRANSCRIBE_FAILED ELSE message

C20_Server ==
  /\ \A r \in Reqs :
       /\ \A j \in 1 .. Len(req[r].calls) :
            req[r].calls[j].outcome = "error" =>
              req[r].response = ErrorResponse(500, Reported(req[r].calls[j].message))
       /\ (req[r].response # NoResponse /\ ~IsSuccess(req[r].response)
             /\ req[r].response.error = MSG_TRANSCRIBE_FAILED) =>
            /\ req[r].calls # <<>>
            /\ LastCall(req[r].calls).outcome = "error"
            /\ LastCall(req[r].calls).message = ""
  /\ \A j \in 1 .. Len(api.calls) :
       api.calls[j].outcome = "error" =>
         api.response = ErrorResponse(500, Reported(api.calls[j].message))

C20_Client ==
  (sub.pc = "fetch" /\ sub'.pc = "failed") =>
    /\ LastCall(sub'.calls).outcome = "error" =>
         ui'.error = Reported(LastCall(sub'.calls).message)
    /\ ui'.error = MSG_TRANSCRIBE_FAILED =>
         /\ LastCall(sub'.calls).outcome = "error"
         /\ LastCall(sub'.calls).message = ""

\* C20: when the backend refuses a transcription call with a message, the
\* error the request reports is that message, unchanged; the fallback
\* message is reported only when the backend's answer carried none.
C20_BackendMessageVerbatim == [](C20_Server) /\ [][C20_Client]_vars

\* C20 witness: the backend refused the second chunk's call for quota and the
\* request has answered.
C20_Witness ==
  \/ \E r \in Reqs :
       /\ Len(req[r].calls) = 2 /\ req[r].pc = "done"
       /\ req[r].calls[2].outcome = "error" /\ req[r].calls[2].message = "quota"
       /\ req[r].response.error = "quota"
  \/ /\ sub.pc = "failed" /\ Len(sub.calls) = 2
     /\ sub.calls[2].outcome = "error" /\ sub.calls[2].message = "quota"
     /\ ui.error = "quota"

\* C21: a planned chunk that left no file is dropped and the sequence split
\* returns closes up: it holds the chunks that did leave a file, in the order
\* they were planned, at positions 0..k-1; the loop numbers its calls by
\* position, gives the Initial prompt to position 0 whatever chunk stands
\* there, and joins the texts in position order.
C21_DroppedChunksCompact ==
  \A r \in Reqs :
    LET rec == req[r]
        paths == rec.chunkPaths
    IN (rec.splitReturned /\ rec.numChunks > 0) =>
         /\ Len(paths) = rec.numChunks - rec.dropped
         /\ \A j \in 1 .. Len(paths) :
              /\ paths[j] = chunkPath(rec.timestamp, paths[j].idx)
              /\ \A k \in (j + 1) .. Len(paths) : paths[j].idx < paths[k].idx
         /\ Len(rec.calls) <= Len(paths)
         /\ \A j \in 1 .. Len(rec.calls) :
              /\ rec.calls[j].idx = j - 1
              /\ rec.calls[j].audio.lo = startTimeOf(paths[j].idx)
              /\ (rec.calls[j].prompt = PROMPT) <=> (j = 1)
              /\ (rec.calls[j].prompt = PROMPT_CONTINUATION) <=> (j > 1)
         /\ IsSuccess(rec.response) =>
              /\ rec.response.chunks = Len(paths)
              /\ rec.response.transcription = Join(AnsweredTexts(rec.calls))

\* C21 witness: the chunk planned first left no file, and the chunk planned
\* second was sent as segment 0 with the Initial prompt.
C21_Witness ==
  \E r \in Reqs :
    /\ req[r].splitReturned /\ req[r].dropped >= 1
    /\ Len(req[r].chunkPaths) >= 1 /\ req[r].chunkPaths[1].idx = 1
    /\ Len(req[r].calls) >= 1
    /\ req[r].calls[1].idx = 0 /\ req[r].calls[1].prompt = PROMPT
    /\ req[r].calls[1].audio.lo = startTimeOf(1)

\* what the backend put in an OK answer is empty: no text part, or the empty text
EmptyContent(call) == call.outcome = "ok" /\ (~call.hasText \/ call.text = <<>>)

\* the calls answered OK with empty content gave the placeholder, none of them
\* made the request fail, and the text stands at the call's place in `results`
PlaceholderForEmpty(calls, results) ==
  \A j \in 1 .. Len(calls) :
    EmptyContent(calls[j]) =>
      /\ calls[j].text = PLACEHOLDER
      /\ j <= Len(results) /\ results[j] = PLACEHOLDER

\* C22: an OK answer with empty content gives the segment the placeholder as
\* its text; it is no failure, the loop goes on, and the placeholder stands at
\* the segment's place among the texts that are joined.
C22_EmptyContentGivesPlaceholder ==
  /\ \A r \in Reqs : PlaceholderForEmpty(req[r].calls, req[r].results)
  /\ PlaceholderForEmpty(sub.calls, sub.results)
  /\ \A j \in 1 .. Len(api.calls) :
       EmptyContent(api.calls[j]) =>
         (IsSuccess(api.response) /\ api.response.transcription = PLACEHOLDER)

\* n calls, all answered OK, call j for segment j - 1, each for audio of its own
OneOkCallPerSegment(calls, n) ==
  /\ Len(calls) = n
  /\ \A j \in 1 .. n :
       /\ calls[j].outcome = "ok"
       /\ calls[j].idx = j - 1
       /\ calls[j].audio.lo < calls[j].audio.hi
       /\ \A k \in (j + 1) .. n : calls[j].audio.hi <= calls[k].audio.lo

C23_Done ==
  /\ \A r \in Reqs :
       IsSuccess(req[r].response) =>
         /\ Len(req[r].chunkPaths) = req[r].response.chunks
         /\ Len(req[r].results) = req[r].response.chunks
         /\ OneOkCallPerSegment(req[r].calls, req[r].response.chunks)
  /\ sub.pc = "done" =>
       /\ Len(sub.results) = Len(sub.chunks)
       /\ OneOkCallPerSegment(sub.calls, Len(sub.chunks))
  /\ IsSuccess(api.response) =>
       /\ Len(api.calls) = 1
       /\ api.calls[1].outcome = "ok" /\ api.calls[1].idx = 0

\* the step that joins finds the call for the last segment in flight and
\* settles it OK
C23_JoinStep ==
  /\ \A r \in Reqs :
       (~IsSuccess(req[r].response) /\ IsSuccess(req'[r].response)
          /\ req'[r].response.chunks >= 1) =>
         /\ req[r].pc = "fetch"
         /\ Len(req[r].calls) = Len(req[r].chunkPaths)
         /\ req[r].calls[Len(req[r].calls)].outcome = "pending"
         /\ req'[r].calls[Len(req[r].calls)].outcome = "ok"
  /\ (sub.pc # "done" /\ sub'.pc = "done") =>
       /\ sub.pc = "fetch"
       /\ Len(sub.calls) = Len(sub.chunks)
       /\ sub.calls[Len(sub.calls)].outcome = "pending"
       /\ sub'.calls[Len(sub.calls)].outcome = "ok"

\* C23: a request that ends in success with n segments has made exactly n
\* transcription calls, all answered OK, one per segment in index order
\* 0..n-1, none skipped and none made twice; the join is made in the step
\* that sees the call for segment n-1 succeed, not before.
C23_OneCallPerSegmentThenJoin == []C23_Done /\ [][C23_JoinStep]_vars

\* C23 witness: a request with three segments ended in success.
C23_Witness ==
  \/ \E r \in Reqs :
       /\ IsSuccess(req[r].response) /\ req[r].response.chunks = 3
       /\ Len(req[r].calls) = 3 /\ req[r].calls[3].outcome = "ok"
  \/ /\ sub.pc = "done" /\ Len(sub.chunks) = 3
     /\ Len(sub.calls) = 3 /\ sub.calls[3].outcome = "ok"

C24_CallOnlyIfActive ==
  api.calls # <<>> =>
    /\ api.checks >= 1
    /\ api.state = "ACTIVE"
    /\ api.failedCheck = 0

\* the call is issued by the step whose status check returned ACTIVE
C24_IssueStep ==
  Len(api'.calls) > Len(api.calls) =>
    /\ api.calls = <<>>
    /\ api'.checks = api.checks + 1
    /\ api'.state = "ACTIVE"

\* C24: on the upload-then-reference routes the transcription call for a file
\* is issued only when a status check has returned ACTIVE for it, by the step
\* that saw ACTIVE; none is issued, or in flight, while the last state seen
\* is PROCESSING, FAILED or unknown.
C24_TranscribeOnlyWhenActive == []C24_CallOnlyIfActive /\ [][C24_IssueStep]_vars

\* C24 witness: two checks found the file not ready, the third found it
\* ACTIVE and the call is in flight.
C24_Witness ==
  /\ route \in {"rest", "sdk"}
  /\ api.pc = "generate" /\ api.checks = 3 /\ api.state = "ACTIVE"
  /\ Pending(api.calls) = {1}

\* the bytes of a 64 kbit/s stream of the window `media`
SizeOf(media) == audioSize(media.hi - media.lo)

\* C25: every chunk file splitAudio writes lasts at most CHUNK_MINUTES
\* minutes, so at 64 kbit/s it holds at most 30*60*8000 bytes, which is within
\* MAX_CHUNK_BYTES; and every segment the route sends, the single segment of an
\* under-budget recording included, is within MAX_CHUNK_BYTES.
C25_ChunksWithinCeiling ==
  /\ CHUNK_MINUTES * 60 * BYTES_PER_SECOND <= MAX_CHUNK_BYTES
  /\ \A p \in DOMAIN fs :
       p.kind = "chunk" =>
         /\ fs[p].hi - fs[p].lo <= CHUNK_MINUTES * 60
         /\ SizeOf(fs[p]) <= CHUNK_MINUTES * 60 * BYTES_PER_SECOND
         /\ SizeOf(fs[p]) <= MAX_CHUNK_BYTES
  /\ \A r \in Reqs : \A j \in 1 .. Len(req[r].calls) :
       SizeOf(req[r].calls[j].audio) <= MAX_CHUNK_BYTES

\* C25 witness: a recording over budget was split and its first chunk, a full
\* 30 minutes, is being sent.
C25_Witness ==
  \E r \in Reqs :
    /\ req[r].pc = "fetch" /\ req[r].numChunks >= 2
    /\ audioSize(req[r].totalDuration) > MAX_CHUNK_BYTES
    /\ Len(req[r].calls) = 1
    /\ req[r].calls[1].audio.hi - req[r].calls[1].audio.lo = CHUNK_MINUTES * 60
    /\ existsSync(fs, chunkPath(req[r].timestamp, 0))

\* C26: the transcript VideoUploader shows (and offers for download under the
\* name of the selected file) is the result of a request made for the file
\* that is selected now, also if another file was selected while the request
\* was in flight.
C26_TranscriptOfSelectedFile ==
  ui.transcription # <<>> =>
    /\ sub.pc = "done"
    /\ ui.transcription = sub.shown
    /\ ui.file = sub.file

\* isLoading is true exactly while a handleSubmit runs, and then neither the
\* submit button nor the reset button can be used
C27_LoadingBlocks ==
  /\ ui.isLoading <=> Running(sub)
  /\ ui.isLoading => (~ENABLED HandleSubmit /\ ~ENABLED HandleReset)

\* a step taken while a handleSubmit runs neither starts a request nor resets
C27_NoSecondStart ==
  ui.isLoading =>
    /\ sub'.pc = "getApiKey" => sub' = sub
    /\ sub'.file = sub.file
    /\ Len(sub'.calls) >= Len(sub.calls)
    /\ ui.file # NoSelection => ui'.file # NoSelection

\* C27: VideoUploader has at most one transcription request in progress: while
\* isLoading is true no second handleSubmit and no handleReset can start,
\* whatever the user does in between (selecting files included).
C27_OneRequestAtATime == []C27_LoadingBlocks /\ [][C27_NoSecondStart]_vars

\* C27 witness: a request is in flight and the user has meanwhile selected
\* another file.
C27_Witness ==
  /\ ui.isLoading /\ sub.pc = "fetch"
  /\ ui.file # sub.file /\ ui.file # NoSelection

\* handleSubmit is over
Finished(s) == s.pc \in {"done", "failed"}

\* once handleSubmit is over nothing loads and no label stands; a failed
\* request has shown no transcript, and by the side of a transcript the only
\* error there can be is handleFile's, for a file that is no media
C28_AfterFinish ==
  Finished(sub) =>
    /\ ~ui.isLoading
    /\ ui.status = <<>>
    /\ sub.pc = "failed" => (ui.transcription = <<>> /\ sub.shown = <<>>)
    /\ (ui.transcription # <<>> /\ ui.error # "") => ui.error = MSG_SELECT_MEDIA

\* the step that ends handleSubmit writes either the transcript or the error
C28_FinishStep ==
  (~Finished(sub) /\ Finished(sub')) =>
    /\ ui.isLoading /\ ~ui'.isLoading
    /\ ui'.status = <<>>
    /\ ui.transcription = <<>>
    /\ \/ /\ sub'.pc = "done"
          /\ ui'.transcription = sub'.shown
          /\ ui'.error = ui.error
       \/ /\ sub'.pc = "failed"
          /\ ui'.transcription = <<>>
          /\ ui'.error # "" /\ ui'.error # MSG_SELECT_MEDIA

\* C28: when handleSubmit is over, on whatever path (success, backend error,
\* timeout, decoding failure), in the chunked and in the single-call version,
\* isLoading is false and the progress label is empty, and the request has
\* written either the transcript or the error message, never both.
C28_OneOutcome == []C28_AfterFinish /\ [][C28_FinishStep]_vars

\* C28 witness: the single-call version's request ran into the timeout.
C28_Witness ==
  /\ route = "client2" /\ sub.pc = "failed"
  /\ Len(sub.calls) = 1 /\ sub.calls[1].outcome = "aborted"
  /\ ui.error = MSG_TIMEOUT /\ ~ui.isLoading /\ ui.status = <<>>

\* a state waitForFileActive does not know: anything but ACTIVE and FAILED,
\* the missing state of an error body included
UnknownState(state) == state \notin {"ACTIVE", "FAILED"}

\* the check that reads such a state goes to sleep, and the sleep is followed
\* by the next check, or by the timeout after check maxAttempts
C29_PollStep ==
  route = "rest" =>
    /\ (api.pc = "poll" /\ api'.checks = api.checks + 1 /\ UnknownState(api'.state)) =>
         /\ api'.pc = "sleep"
         /\ ~api'.failed /\ api'.response = NoResponse
         /\ api'.i = api.i
    /\ (api.pc = "sleep" /\ api'.pc # "sleep") =>
         IF api.checks < maxAttempts
         THEN api'.pc = "poll" /\ ~api'.failed /\ api'.checks = api.checks
         ELSE /\ api'.pc = "done" /\ api'.failed
              /\ api'.response = ErrorResponse(500, MSG_FILE_TIMEOUT)

\* a request whose last check read such a state has failed only by the timeout
\* after maxAttempts checks, or because the next check's fetch itself failed
C29_FailsOnlyByTimeout ==
  (route = "rest" /\ api.checks >= 1 /\ UnknownState(api.state)) =>
    /\ api.calls = <<>>
    /\ api.pc = "sleep" => api.checks = api.i + 1
    /\ api.failed =>
         \/ /\ api.response = ErrorResponse(500, MSG_FILE_TIMEOUT)
            /\ api.checks = maxAttempts
         \/ api.response = ErrorResponse(500, "fetch-failed")

\* C29: waitForFileActive takes a status answer whose state is neither ACTIVE
\* nor FAILED (PROCESSING, or no state at all as in an error body) for
\* pending: it sleeps and checks again, and the request fails because of such
\* answers only through the timeout after maxAttempts checks, never earlier.
C29_UnknownStateIsPending == []C29_FailsOnlyByTimeout /\ [][C29_PollStep]_vars

\* C29 witness: every one of the maxAttempts checks was answered without a
\* state, and the request ended with the timeout.
C29_Witness ==
  /\ route = "rest" /\ api.pc = "done" /\ api.state = ""
  /\ api.checks = maxAttempts
  /\ api.response = ErrorResponse(500, MSG_FILE_TIMEOUT)

====
